---- MODULE Spec2Model ----
(***************************************************************************)
(* Verification model of modern_cpp_vulkan_project.                        *)
(*                                                                         *)
(* Two programs of the repository are modelled:                            *)
(*   "main"     src/source/main.cpp  (window, presentation-support query,  *)
(*              queue family selection, logical device, Surface with its   *)
(*              swapchain, lifecycle event loop)                           *)
(*   "part_000" src/unnamed/part_000 (window, surface, graphics-only queue *)
(*              family selection, quit-only event loop)                    *)
(* The variable `program` says which one runs.                             *)
(***************************************************************************)
EXTENDS Integers, Sequences, FiniteSets, TLC

\* ------------------------------------------------------------------ bounds
\* Physical devices returned by enumeratePhysicalDevices().
MaxDevices == 2
\* Queue families summed over all enumerated physical devices.
MaxFamilies == 2
\* Events the platform posts during one run.
MaxEvents == 3
\* Entries of the list returned by getSurfaceFormatsKHR().
MaxFormats == 2
\* Width of the unsigned image counts (uint32_t in the source, scaled down:
\* the arithmetic below is modulo 2^UIntBits, so min + 1 still overflows).
UIntBits == 2

\* ------------------------------------------------------------------- state
VARIABLES
    program,            \* which main() runs: "main" or "part_000"
    android,            \* __ANDROID__ is defined for this build (main.cpp:318)
    pc,                 \* position of main()
    constructed,        \* number of main()'s locals constructed so far
    alive,              \* main()'s locals that are constructed and not destroyed
    exception,          \* the exception in flight ("" when none)
    exit_code,          \* <<>> while running, <<0>> once main returned 0
    enumerated,         \* what the selection loop saw, device by device
    select_runs,        \* how many times the selection loop has run
    queue_family,       \* std::optional<QueueFamily>
    device,             \* the queue family the vk::raii::Device was created with
    surface,            \* std::optional<Surface> (main.cpp:314)
    constructing,       \* the Surface whose constructor is running
    live_surfaces,      \* VkSurfaceKHR handles created and not destroyed
    live_swapchains,    \* VkSwapchainKHR objects created and not destroyed
    next_handle,        \* next fresh driver handle
    should_close,       \* main.cpp:323
    events,             \* the platform's pending event queue
    posted,             \* number of events posted so far
    last_lifecycle,     \* last lifecycle event the loop handled: "none", "fg", "bg"
    after_quit,         \* a lifecycle event changed the Surface after a Quit was handled
    wm_info,            \* inputs of one presentation-support query
    driver_support,     \* the driver's presentation answer that query is given
    query_result,       \* result of that query
    surface_capabilities, \* inputs of one create_swapchain call
    surface_formats,
    swapchain_create_info \* the vk::SwapchainCreateInfoKHR it filled in

vars == <<program, android, pc, constructed, alive, exception, exit_code,
          enumerated, select_runs, queue_family, device, surface, constructing,
          live_surfaces, live_swapchains, next_handle, should_close, events,
          posted, last_lifecycle, after_quit, wm_info, driver_support, query_result,
          surface_capabilities, surface_formats, swapchain_create_info>>

\* Variables grouped by the part of the program that writes them.
lifetime_vars == <<constructed, alive>>
selection_vars == <<enumerated, select_runs, queue_family>>
surface_vars == <<surface, constructing, live_surfaces, live_swapchains, next_handle>>
loop_vars == <<should_close, events, posted, last_lifecycle, after_quit>>
query_vars == <<wm_info, driver_support, query_result>>
swapchain_vars == <<surface_capabilities, surface_formats, swapchain_create_info>>

\* std::optional<T>: <<>> is nullopt, <<x>> holds x.
has_value(o) == o # <<>>
Range(s) == {s[k] : k \in 1..Len(s)}

\* ------------------------------------------ presentation-support query
\* SDL_SYSWM_TYPE values of a window; "KMSDRM" stands for every subsystem
\* that has no case of its own in the switch.
Subsystems == {"UNKNOWN", "ANDROID", "COCOA", "UIKIT", "WINDOWS", "WAYLAND",
               "X11", "KMSDRM"}
\* The VK_USE_PLATFORM_*_KHR macros a build may define (main.cpp:9-17).
VkPlatforms == {"WIN32", "WAYLAND", "XLIB"}

\* What one call of the query reads from the platform: the window's
\* subsystem, whether SDL_GetWindowWMInfo succeeded (returned 0), whether
\* X11_XGetWindowAttributes succeeded (returned nonzero), and the platform
\* cases compiled into the build.
WMInfos == [subsystem : Subsystems, wm_info_ok : BOOLEAN,
            attributes_ok : BOOLEAN, vk_platforms : SUBSET VkPlatforms]

\* std::expected<bool, PresentationSupportQueryError>, or an exception.
Expected(b) == [kind |-> "value", value |-> b, error |-> "none"]
Unexpected(e) == [kind |-> "unexpected", value |-> FALSE, error |-> e]
Thrown(e) == [kind |-> "throw", value |-> FALSE, error |-> e]
NotQueried == [kind |-> "none", value |-> FALSE, error |-> "none"]
PresentationSupportQueryError == {"Failure", "Unknown", "Unimplemented"}

\* Window::get_physical_device_presentation_support; driver_answer is what
\* vkGetPhysicalDevice*PresentationSupportKHR returns for the family.
get_physical_device_presentation_support(info, driver_answer) ==
    IF ~info.wm_info_ok THEN Thrown("SDLException")
    ELSE CASE info.subsystem \in {"ANDROID", "COCOA", "UIKIT"} -> Expected(TRUE)
           [] info.subsystem = "WINDOWS" /\ "WIN32" \in info.vk_platforms ->
                  Expected(driver_answer)
           [] info.subsystem = "WAYLAND" /\ "WAYLAND" \in info.vk_platforms ->
                  Expected(driver_answer)
           [] info.subsystem = "X11" /\ "XLIB" \in info.vk_platforms ->
                  IF info.attributes_ok THEN Expected(driver_answer)
                  ELSE Unexpected("Failure")
           [] info.subsystem = "UNKNOWN" -> Unexpected("Unknown")
           [] OTHER -> Unexpected("Unimplemented")

\* std::expected::value_or
value_or(e, fallback) == IF e.kind = "value" THEN e.value ELSE fallback

\* ------------------------------------------- queue family selection
\* One VkQueueFamilyProperties entry as the selection reads it: the graphics
\* bit of queueFlags, and the driver's presentation answer for the family.
FamilyProperties == [graphics : BOOLEAN, present : BOOLEAN]

FamilyLists(n) == UNION {[1..k -> FamilyProperties] : k \in 0..n}

\* Lists of at most k devices whose families number at most n in all.
RECURSIVE DeviceListsOf(_, _)
DeviceListsOf(k, n) ==
    IF k = 0 THEN {<<>>}
    ELSE {<<>>} \cup
         UNION {{<<fs>> \o rest : rest \in DeviceListsOf(k - 1, n - Len(fs))} :
                fs \in FamilyLists(n)}

DeviceLists == DeviceListsOf(MaxDevices, MaxFamilies)

\* QueueFamily = std::pair<vk::raii::PhysicalDevice, size_t>; the device is
\* named by its place in the enumeration, the family by its index (from 0).
QueueFamily(d, i) == [physical_device |-> d, queue_family_index |-> i]

\* A strict policy: a query that fails disqualifies the family.
strict_fallback == FALSE

\* The argument of value_or at main.cpp:295.
presentation_fallback == TRUE

\* main.cpp:295: the condition under which a family is taken.
is_candidate(does_support_graphics, does_support_presentation) ==
    does_support_graphics /\
    value_or(does_support_presentation, presentation_fallback)

\* An assignment that keeps the first family found.
assign_first_queue_family(current, candidate, d, i) ==
    IF candidate /\ current = <<>> THEN <<QueueFamily(d, i)>> ELSE current

\* main.cpp:295-296 (part_000:132-133): the assignment inside the loops.
assign_queue_family(current, candidate, d, i) ==
    IF candidate THEN <<QueueFamily(d, i)>> ELSE current

\* main.cpp:287-298: the two nested loops, from device d, family index i,
\* with `current` the value of queue_family so far.  A query that throws
\* ends the loops with the exception.
RECURSIVE select_from(_, _, _, _, _)
select_from(devices, info, d, i, current) ==
    IF d > Len(devices) THEN [thrown |-> FALSE, queue_family |-> current]
    ELSE IF i = Len(devices[d]) THEN select_from(devices, info, d + 1, 0, current)
    ELSE LET properties == devices[d][i + 1]
             does_support_presentation ==
                 get_physical_device_presentation_support(info, properties.present)
         IN IF does_support_presentation.kind = "throw"
            THEN [thrown |-> TRUE, queue_family |-> current]
            ELSE select_from(devices, info, d, i + 1,
                     assign_queue_family(current,
                         is_candidate(properties.graphics, does_support_presentation),
                         d, i))

select(devices, info) == select_from(devices, info, 1, 0, <<>>)

\* part_000:125-135: the same loops with the graphics bit as the only test.
RECURSIVE select_graphics_from(_, _, _, _)
select_graphics_from(devices, d, i, current) ==
    IF d > Len(devices) THEN current
    ELSE IF i = Len(devices[d]) THEN select_graphics_from(devices, d + 1, 0, current)
    ELSE select_graphics_from(devices, d, i + 1,
             assign_queue_family(current, devices[d][i + 1].graphics, d, i))

select_graphics(devices) == select_graphics_from(devices, 1, 0, <<>>)

\* What the loops of main.cpp computed for each family they visited
\* (the locals of main.cpp:291-293).
observe(devices, info) ==
    [d \in 1..Len(devices) |->
        [k \in 1..Len(devices[d]) |->
            [does_support_graphics |-> devices[d][k].graphics,
             does_support_presentation |->
                 get_physical_device_presentation_support(info, devices[d][k].present)]]]

\* Every way the loops of main.cpp can end, over the device lists and the
\* platform answers: the selection, whether a query threw, and what the
\* loops saw (nothing is kept of loops an exception ended).
selection_outcome(devices, info) ==
    LET selected == select(devices, info)
    IN [queue_family |-> selected.queue_family,
        thrown |-> selected.thrown,
        seen |-> IF selected.thrown THEN <<>> ELSE observe(devices, info)]

selection_outcomes ==
    UNION {{selection_outcome(devices, info) : devices \in DeviceLists} :
           info \in WMInfos}

\* The same for part_000, which makes no presentation query.
observe_graphics(devices) ==
    [d \in 1..Len(devices) |->
        [k \in 1..Len(devices[d]) |->
            [does_support_graphics |-> devices[d][k].graphics,
             does_support_presentation |-> NotQueried]]]

\* ------------------------------------------------- swapchain creation
UIntMax == 2 ^ UIntBits - 1
\* Unsigned addition of the image counts' width.
add_uint(a, b) == (a + b) % (2 ^ UIntBits)

\* VkSurfaceCapabilitiesKHR as create_swapchain reads it: maxImageCount is
\* either 0 (no limit) or at least minImageCount.  (A real surface has
\* minImageCount >= 1; 0 is kept so that every pair with min <= max occurs.)
SurfaceCapabilities ==
    {c \in [minImageCount : 0..UIntMax, maxImageCount : 0..UIntMax] :
        c.maxImageCount = 0 \/ c.minImageCount <= c.maxImageCount}

Formats == {"eB8G8R8A8Srgb", "eB8G8R8A8Unorm"}
ColorSpaces == {"eSrgbNonlinear", "eDisplayP3NonlinearEXT"}
SurfaceFormatKHR == [format : Formats, colorSpace : ColorSpaces]
\* getSurfaceFormatsKHR() returns at least one entry for a valid surface.
SurfaceFormatLists == UNION {[1..n -> SurfaceFormatKHR] : n \in 1..MaxFormats}

\* A test that looks at the format and not at the colour space.
is_preferred_format(surface_format) == surface_format.format = "eB8G8R8A8Srgb"

\* main.cpp:181-182: the test of the format loop.
is_preferred(surface_format) ==
    surface_format.format = "eB8G8R8A8Srgb" /\
    surface_format.colorSpace = "eSrgbNonlinear"

\* main.cpp:178-187: the loop over surface_formats from entry k on, then
\* surface_formats.front().
RECURSIVE find_surface_format(_, _)
find_surface_format(formats, k) ==
    IF k > Len(formats) THEN formats[1]
    ELSE IF is_preferred(formats[k]) THEN formats[k]
    ELSE find_surface_format(formats, k + 1)

select_surface_format(formats) == find_surface_format(formats, 1)

\* A clamp that forgets the upper limit.
clamp_from_below(v, lo, hi) == {IF v < lo THEN lo ELSE v}

\* std::clamp(v, lo, hi): the values it may return.  With hi < lo its
\* behaviour is undefined, and any value of the type may come out.
clamp(v, lo, hi) ==
    IF hi < lo THEN 0..UIntMax
    ELSE {IF v < lo THEN lo ELSE IF hi < v THEN hi ELSE v}

\* main.cpp:198-200: the values minImageCount may be given.
min_image_count(capabilities) ==
    clamp(add_uint(capabilities.minImageCount, 1),
          capabilities.minImageCount, capabilities.maxImageCount)

\* Surface::create_swapchain (main.cpp:172-208): the create infos it may
\* hand to the driver.
create_swapchain(family, capabilities, formats) ==
    LET surface_format == select_surface_format(formats)
    IN {[physical_device |-> family.physical_device,
         queueFamilyIndex |-> family.queue_family_index,
         minImageCount |-> n,
         imageFormat |-> surface_format.format,
         imageColorSpace |-> surface_format.colorSpace,
         presentMode |-> "eFifo",
         imageSharingMode |-> "eExclusive",
         imageArrayLayers |-> 1] : n \in min_image_count(capabilities)}

\* The create infos of a call for a family, over every answer the driver
\* may give to getSurfaceCapabilitiesKHR and getSurfaceFormatsKHR.
QueueFamilies == {QueueFamily(d, i) : d \in 1..MaxDevices, i \in 0..(MaxFamilies - 1)}
possible_create_infos ==
    [family \in QueueFamilies |->
        UNION {create_swapchain(family, capabilities, formats) :
                   capabilities \in SurfaceCapabilities,
                   formats \in SurfaceFormatLists}]

\* ------------------------------------------------------- object lifetimes
\* main()'s locals with a destructor, in declaration order
\* (main.cpp:218-314, part_000:104-125).
Locals ==
    IF program = "main"
    THEN <<"sdl", "vulkan_library", "context", "instance", "window",
           "queue_family", "device", "queue", "surface">>
    ELSE <<"sdl", "vulkan_library", "context", "instance", "window",
           "surface", "queue_family">>

\* Locals whose constructor only acquires the object or throws.
PlainLocals == {"sdl", "vulkan_library", "context", "instance", "window"}

NextLocal == IF constructed < Len(Locals) THEN Locals[constructed + 1] ELSE "none"

\* The exception a failing constructor throws.
ExceptionOf(local) ==
    IF local \in {"sdl", "vulkan_library", "window", "surface"}
    THEN "SDLException" ELSE "vk::SystemError"

\* Destruction in declaration order: the first local still alive.
FirstConstructed == Locals[Cardinality({k \in 1..Len(Locals) : Locals[k] \notin alive}) + 1]

\* The local the stack unwinding destroys next: the last one constructed.
NextDestroyed == Locals[constructed]

\* A reset that forgets to destroy the VkSurfaceKHR it held.
surfaces_leaked == live_surfaces

\* ~Surface() (main.cpp:167-170): the members go in reverse declaration
\* order, swapchain and then handle; these are the live driver objects left.
surfaces_after_reset == live_surfaces \ {s.handle : s \in Range(surface)}
swapchains_after_reset == live_swapchains \ UNION {Range(s.swapchain) : s \in Range(surface)}

\* ---------------------------------------------------------------- start
\* The values of the variables a specification does not use.
IdleQuery ==
    /\ wm_info = <<>>
    /\ driver_support = FALSE
    /\ query_result = NotQueried
IdleSwapchain ==
    /\ surface_capabilities = <<>>
    /\ surface_formats = <<>>
    /\ swapchain_create_info = <<>>

\* The program's objects before main() has constructed any.
AtEntry ==
    /\ constructed = 0
    /\ alive = {}
    /\ exception = ""
    /\ exit_code = <<>>
    /\ enumerated = <<>>
    /\ select_runs = 0
    /\ queue_family = <<>>
    /\ device = <<>>
    /\ surface = <<>>
    /\ constructing = <<>>
    /\ live_surfaces = {}
    /\ live_swapchains = {}
    /\ next_handle = 1
    /\ should_close = FALSE
    /\ events = <<>>
    /\ posted = 0
    /\ last_lifecycle = "none"
    /\ after_quit = FALSE

Init ==
    /\ program \in {"main", "part_000"}
    /\ android \in (IF program = "main" THEN BOOLEAN ELSE {FALSE})
    /\ pc = "main"
    /\ AtEntry
    /\ IdleQuery
    /\ IdleSwapchain

\* --------------------------------------------------- set-up of main()
\* A throw expression: the exception leaves main(), which has no handler.
Throw(e) ==
    /\ pc' = "throw"
    /\ exception' = e

\* main.cpp:218-285, part_000:104-122: SDL, VulkanLibrary, vk::raii::Context,
\* vk::raii::Instance and Window are constructed in turn; each constructor
\* acquires its object or throws.  (The calls between them that may throw,
\* enumerateInstanceLayerProperties and get_instance_extensions, throw with
\* the same locals alive as a failing Instance constructor.)
ConstructLocal ==
    /\ pc = "main"
    /\ NextLocal \in PlainLocals
    /\ \/ /\ alive' = alive \cup {NextLocal}
          /\ constructed' = constructed + 1
          /\ UNCHANGED <<pc, exception>>
       \/ /\ Throw(ExceptionOf(NextLocal))
          /\ UNCHANGED lifetime_vars
    /\ UNCHANGED <<program, android, exit_code, selection_vars, device,
                   surface_vars, loop_vars, query_vars, swapchain_vars>>

\* main.cpp:287-298: queue_family is declared empty and the loops over the
\* physical devices and their queue families run.
SelectQueueFamily ==
    /\ program = "main"
    /\ pc = "main"
    /\ NextLocal = "queue_family"
    /\ alive' = alive \cup {"queue_family"}
    /\ constructed' = constructed + 1
    /\ select_runs' = select_runs + 1
    /\ \E outcome \in selection_outcomes :
          /\ queue_family' = outcome.queue_family
          /\ enumerated' = outcome.seen
          /\ IF outcome.thrown
             THEN Throw("SDLException")
             ELSE pc' = "selected" /\ UNCHANGED exception
    /\ UNCHANGED <<program, android, exit_code, device, surface_vars,
                   loop_vars, query_vars, swapchain_vars>>

\* main.cpp:300-301: no selection is a fatal error.  The vector of physical
\* devices the loop ran over is gone by now.
CheckQueueFamily ==
    /\ program = "main"
    /\ pc = "selected"
    /\ enumerated' = <<>>
    /\ IF has_value(queue_family)
       THEN pc' = "main" /\ UNCHANGED exception
       ELSE Throw("std::runtime_error")
    /\ UNCHANGED <<program, android, lifetime_vars, exit_code, select_runs,
                   queue_family, device, surface_vars, loop_vars, query_vars,
                   swapchain_vars>>

\* main.cpp:302-311: the logical device is created on the selected physical
\* device with one queue of the selected family.
ConstructDevice ==
    /\ pc = "main"
    /\ NextLocal = "device"
    /\ \/ /\ device' = queue_family
          /\ alive' = alive \cup {"device"}
          /\ constructed' = constructed + 1
          /\ UNCHANGED <<pc, exception>>
       \/ /\ Throw(ExceptionOf("device"))
          /\ UNCHANGED <<device, lifetime_vars>>
    /\ UNCHANGED <<program, android, exit_code, selection_vars, surface_vars,
                   loop_vars, query_vars, swapchain_vars>>

\* main.cpp:312: vkGetDeviceQueue cannot fail.
ConstructQueue ==
    /\ pc = "main"
    /\ NextLocal = "queue"
    /\ alive' = alive \cup {"queue"}
    /\ constructed' = constructed + 1
    /\ UNCHANGED <<program, android, pc, exception, exit_code, selection_vars,
                   device, surface_vars, loop_vars, query_vars, swapchain_vars>>

\* main.cpp:314-321: surface is declared empty; create_surface() is called
\* unless the build is for Android; the window is shown.
DeclareSurface ==
    /\ program = "main"
    /\ pc = "main"
    /\ NextLocal = "surface"
    /\ alive' = alive \cup {"surface"}
    /\ constructed' = constructed + 1
    /\ pc' = IF android THEN "poll" ELSE "create_surface"
    /\ UNCHANGED <<program, android, exception, exit_code, selection_vars,
                   device, surface_vars, loop_vars, query_vars, swapchain_vars>>

\* ------------------------------------------------ Surface construction
\* A create_surface that passes the first family of the first device.
first_queue_family == QueueFamily(1, 0)

\* main.cpp:316: the queue family create_surface hands to the Surface.
surface_queue_family == queue_family[1]

\* main.cpp:316, 210-212: surface.emplace(...) destroys the Surface the
\* optional holds, if any, and starts the constructor of the new one, whose
\* first member is the VkSurfaceKHR made by Window::create_surface, which
\* throws when SDL_Vulkan_CreateSurface fails.
EmplaceSurface ==
    /\ pc = "create_surface"
    /\ surface' = <<>>
    /\ live_swapchains' = swapchains_after_reset
    /\ \/ /\ live_surfaces' = surfaces_after_reset \cup {next_handle}
          /\ next_handle' = next_handle + 1
          /\ constructing' = <<[handle |-> next_handle, swapchain |-> <<>>,
                                queue_family |-> surface_queue_family]>>
          /\ pc' = "create_swapchain"
          /\ UNCHANGED exception
       \/ /\ live_surfaces' = surfaces_after_reset
          /\ Throw(ExceptionOf("surface"))
          /\ UNCHANGED <<next_handle, constructing>>
    /\ UNCHANGED <<program, android, lifetime_vars, exit_code, selection_vars,
                   device, loop_vars, query_vars, swapchain_vars>>

\* main.cpp:213, 172-208: the constructor body calls create_swapchain, which
\* queries the surface's capabilities and formats and creates a
\* vk::raii::SwapchainKHR; any of the driver calls may fail and throw.
CreateSwapchain ==
    /\ pc = "create_swapchain"
    /\ \/ /\ \E info \in possible_create_infos[constructing[1].queue_family] :
                   live_swapchains' = live_swapchains \cup
                       {[handle |-> next_handle,
                         surface |-> constructing[1].handle,
                         physical_device |-> info.physical_device,
                         queue_family_index |-> info.queueFamilyIndex]}
          /\ next_handle' = next_handle + 1
          /\ pc' = "swapchain_created"
          /\ UNCHANGED exception
       \/ /\ Throw("vk::SystemError")
          /\ UNCHANGED <<live_swapchains, next_handle>>
    /\ UNCHANGED <<program, android, lifetime_vars, exit_code, selection_vars,
                   device, surface, constructing, live_surfaces, loop_vars,
                   query_vars, swapchain_vars>>

\* main.cpp:213-214: the value create_swapchain returned is not stored: the
\* temporary vk::raii::SwapchainKHR is destroyed at the end of the statement,
\* the member `swapchain` stays empty, and the constructor returns into the
\* optional.  The caller goes on to the event loop (main.cpp:321-323, 331).
DiscardSwapchain ==
    /\ pc = "swapchain_created"
    /\ live_swapchains' =
           {sc \in live_swapchains : sc.surface # constructing[1].handle}
    /\ surface' = constructing
    /\ constructing' = <<>>
    /\ pc' = "poll"
    /\ UNCHANGED <<program, android, lifetime_vars, exception, exit_code,
                   selection_vars, device, live_surfaces, next_handle,
                   loop_vars, query_vars, swapchain_vars>>

\* ------------------------------------------------------- part_000 set-up
\* part_000:123: the surface is a local vk::raii::SurfaceKHR of main().
ConstructSurfaceKHR ==
    /\ program = "part_000"
    /\ pc = "main"
    /\ NextLocal = "surface"
    /\ \/ /\ live_surfaces' = live_surfaces \cup {next_handle}
          /\ next_handle' = next_handle + 1
          /\ alive' = alive \cup {"surface"}
          /\ constructed' = constructed + 1
          /\ UNCHANGED <<pc, exception>>
       \/ /\ Throw(ExceptionOf("surface"))
          /\ UNCHANGED <<live_surfaces, next_handle, lifetime_vars>>
    /\ UNCHANGED <<program, android, exit_code, selection_vars, device,
                   surface, constructing, live_swapchains, loop_vars,
                   query_vars, swapchain_vars>>

\* part_000:125-135: the selection loops, which test the graphics bit only.
SelectGraphicsQueueFamily ==
    /\ program = "part_000"
    /\ pc = "main"
    /\ NextLocal = "queue_family"
    /\ alive' = alive \cup {"queue_family"}
    /\ constructed' = constructed + 1
    /\ select_runs' = select_runs + 1
    /\ \E devices \in DeviceLists :
          /\ queue_family' = select_graphics(devices)
          /\ enumerated' = observe_graphics(devices)
    /\ pc' = "selected"
    /\ UNCHANGED <<program, android, exception, exit_code, device,
                   surface_vars, loop_vars, query_vars, swapchain_vars>>

\* part_000:136-141: a selection is logged, the lack of one is not an
\* error; the event loop follows.
LogQueueFamily ==
    /\ program = "part_000"
    /\ pc = "selected"
    /\ enumerated' = <<>>
    /\ pc' = "poll"
    /\ UNCHANGED <<program, android, lifetime_vars, exception, exit_code,
                   select_runs, queue_family, device, surface_vars, loop_vars,
                   query_vars, swapchain_vars>>

\* ------------------------------------------------------------ event loop
\* The event types the loops tell apart; "SDL_EVENT_OTHER" is any type
\* without a case in the switch.
EventTypes == {"SDL_EVENT_QUIT", "SDL_EVENT_DID_ENTER_FOREGROUND",
               "SDL_EVENT_WILL_ENTER_BACKGROUND", "SDL_EVENT_OTHER"}

\* The platform queues an event.  The program reads the queue only in
\* SDL_PollEvent, so an event queued earlier is one queued at the poll.
PostEvent ==
    /\ pc = "poll"
    /\ posted < MaxEvents
    /\ \E type \in EventTypes : events' = Append(events, type)
    /\ posted' = posted + 1
    /\ UNCHANGED <<program, android, pc, lifetime_vars, exception, exit_code,
                   selection_vars, device, surface_vars, should_close,
                   last_lifecycle, after_quit, query_vars, swapchain_vars>>

\* SDL_PollEvent returned an event of this type (main.cpp:324, part_000:143).
Polled(type) ==
    /\ pc = "poll"
    /\ events # <<>>
    /\ Head(events) = type
    /\ events' = Tail(events)

\* A Quit case that leaves the switch without setting should_close.
HandleQuitIgnored ==
    /\ Polled("SDL_EVENT_QUIT")
    /\ UNCHANGED <<program, android, pc, lifetime_vars, exception, exit_code,
                   selection_vars, device, surface_vars, should_close, posted,
                   last_lifecycle, after_quit, query_vars, swapchain_vars>>

\* main.cpp:326-328, part_000:145-146.
HandleQuit ==
    /\ Polled("SDL_EVENT_QUIT")
    /\ should_close' = TRUE
    /\ UNCHANGED <<program, android, pc, lifetime_vars, exception, exit_code,
                   selection_vars, device, surface_vars, posted,
                   last_lifecycle, after_quit, query_vars, swapchain_vars>>

\* main.cpp:329-331: create_surface() is called.
HandleEnterForeground ==
    /\ program = "main"
    /\ Polled("SDL_EVENT_DID_ENTER_FOREGROUND")
    /\ pc' = "create_surface"
    /\ last_lifecycle' = "fg"
    /\ after_quit' = (after_quit \/ should_close)
    /\ UNCHANGED <<program, android, lifetime_vars, exception, exit_code,
                   selection_vars, device, surface_vars, should_close, posted,
                   query_vars, swapchain_vars>>

\* main.cpp:332-334: surface.reset() destroys the Surface, if there is one.
HandleEnterBackground ==
    /\ program = "main"
    /\ Polled("SDL_EVENT_WILL_ENTER_BACKGROUND")
    /\ surface' = <<>>
    /\ live_swapchains' = swapchains_after_reset
    /\ live_surfaces' = surfaces_after_reset
    /\ last_lifecycle' = "bg"
    /\ after_quit' = (after_quit \/ (should_close /\ has_value(surface)))
    /\ UNCHANGED <<program, android, pc, lifetime_vars, exception, exit_code,
                   selection_vars, device, constructing, next_handle,
                   should_close, posted, query_vars, swapchain_vars>>

\* An event type without a case: nothing happens.  In part_000 the
\* lifecycle events are such types.
HandleOther ==
    /\ \E type \in EventTypes :
          /\ \/ type = "SDL_EVENT_OTHER"
             \/ program = "part_000" /\ type # "SDL_EVENT_QUIT"
          /\ Polled(type)
    /\ UNCHANGED <<program, android, pc, lifetime_vars, exception, exit_code,
                   selection_vars, device, surface_vars, should_close, posted,
                   last_lifecycle, after_quit, query_vars, swapchain_vars>>

\* An outer loop that does not test should_close.
PollEmptyKeepsPolling ==
    /\ pc = "poll"
    /\ events = <<>>
    /\ UNCHANGED vars

\* SDL_PollEvent returned 0: the inner loop ends, and the outer loop either
\* polls again or, with should_close set, ends; main() then returns 0
\* (main.cpp:323-339, part_000:142-151).
PollEmpty ==
    /\ pc = "poll"
    /\ events = <<>>
    /\ IF should_close
       THEN /\ exit_code' = <<0>>
            /\ pc' = "unwind"
       ELSE UNCHANGED <<pc, exit_code>>
    /\ UNCHANGED <<program, android, lifetime_vars, exception, selection_vars,
                   device, surface_vars, loop_vars, query_vars, swapchain_vars>>

\* ------------------------------------------------- leaving main()
\* No handler catches the exception, so std::terminate is called; whether
\* the stack is unwound first is implementation-defined.  Here it is not.
TerminateWithoutUnwinding ==
    /\ pc = "throw"
    /\ pc' = "terminated"
    /\ UNCHANGED <<program, android, lifetime_vars, exception, exit_code,
                   selection_vars, device, surface_vars, loop_vars, query_vars,
                   swapchain_vars>>

\* Here it is: first the members of a Surface whose constructor threw are
\* destroyed, then main()'s locals.
UnwindStack ==
    /\ pc = "throw"
    /\ pc' = "unwind"
    /\ live_surfaces' = live_surfaces \ {s.handle : s \in Range(constructing)}
    /\ constructing' = <<>>
    /\ UNCHANGED <<program, android, lifetime_vars, exception, exit_code,
                   selection_vars, device, surface, live_swapchains,
                   next_handle, loop_vars, query_vars, swapchain_vars>>

\* The destructor of the last constructed local runs.
DestroyLocal ==
    /\ pc = "unwind"
    /\ constructed > 0
    /\ alive' = alive \ {NextDestroyed}
    /\ constructed' = constructed - 1
    /\ IF NextDestroyed = "surface"
       THEN /\ surface' = <<>>
            /\ live_swapchains' = swapchains_after_reset
            /\ live_surfaces' =
                   IF program = "main" THEN surfaces_after_reset ELSE {}
       ELSE UNCHANGED <<surface, live_swapchains, live_surfaces>>
    /\ device' = IF NextDestroyed = "device" THEN <<>> ELSE device
    /\ queue_family' = IF NextDestroyed = "queue_family" THEN <<>> ELSE queue_family
    /\ UNCHANGED <<program, android, pc, exception, exit_code, enumerated,
                   select_runs, constructing, next_handle, loop_vars,
                   query_vars, swapchain_vars>>

\* Every local is gone: the process ends, with main()'s return value or,
\* after an exception, in std::terminate.
Exit ==
    /\ pc = "unwind"
    /\ constructed = 0
    /\ pc' = IF exception = "" THEN "exited" ELSE "terminated"
    /\ UNCHANGED <<program, android, lifetime_vars, exception, exit_code,
                   selection_vars, device, surface_vars, loop_vars, query_vars,
                   swapchain_vars>>

\* --------------------------------------------------------- specification
Next ==
    \/ ConstructLocal
    \/ SelectQueueFamily
    \/ CheckQueueFamily
    \/ ConstructDevice
    \/ ConstructQueue
    \/ DeclareSurface
    \/ EmplaceSurface
    \/ CreateSwapchain
    \/ DiscardSwapchain
    \/ ConstructSurfaceKHR
    \/ SelectGraphicsQueueFamily
    \/ LogQueueFamily
    \/ PostEvent
    \/ HandleQuit
    \/ HandleEnterForeground
    \/ HandleEnterBackground
    \/ HandleOther
    \/ PollEmpty
    \/ TerminateWithoutUnwinding
    \/ UnwindStack
    \/ DestroyLocal
    \/ Exit

Spec == Init /\ [][Next]_vars

\* The scheduling of the programs: one thread that runs until the process
\* ends.  The platform is not obliged to post events.
ProgramStep ==
    \/ ConstructLocal \/ SelectQueueFamily \/ CheckQueueFamily
    \/ ConstructDevice \/ ConstructQueue \/ DeclareSurface
    \/ EmplaceSurface \/ CreateSwapchain \/ DiscardSwapchain
    \/ ConstructSurfaceKHR \/ SelectGraphicsQueueFamily \/ LogQueueFamily
    \/ HandleQuit \/ HandleEnterForeground \/ HandleEnterBackground
    \/ HandleOther \/ PollEmpty
    \/ TerminateWithoutUnwinding \/ UnwindStack \/ DestroyLocal \/ Exit

FairSpec == Spec /\ WF_vars(ProgramStep)

\* ------------------------- the presentation-support query on its own
\* One call of Window::get_physical_device_presentation_support on a
\* window of main.cpp, for every platform answer.
InitQuery ==
    /\ program = "main"
    /\ android = FALSE
    /\ pc = "query"
    /\ AtEntry
    /\ wm_info \in WMInfos
    /\ driver_support \in BOOLEAN
    /\ query_result = NotQueried
    /\ IdleSwapchain

CallQuery ==
    /\ pc = "query"
    /\ query_result' = get_physical_device_presentation_support(wm_info, driver_support)
    /\ pc' = "query_returned"
    /\ UNCHANGED <<program, android, lifetime_vars, exception, exit_code,
                   selection_vars, device, surface_vars, loop_vars, wm_info,
                   driver_support, swapchain_vars>>

NextQuery == CallQuery

SpecQuery == InitQuery /\ [][NextQuery]_vars

\* ----------------------------------- Surface::create_swapchain on its own
\* One call of create_swapchain with a selected queue family, for every
\* answer of getSurfaceCapabilitiesKHR and getSurfaceFormatsKHR.
InitSwapchain ==
    /\ program = "main"
    /\ android = FALSE
    /\ pc = "create_info"
    /\ AtEntry
    /\ IdleQuery
    /\ surface_capabilities \in SurfaceCapabilities
    /\ surface_formats \in SurfaceFormatLists
    /\ swapchain_create_info = <<>>

FillCreateInfo ==
    /\ pc = "create_info"
    /\ \E family \in QueueFamilies :
          swapchain_create_info' \in
              create_swapchain(family, surface_capabilities, surface_formats)
    /\ pc' = "create_info_filled"
    /\ UNCHANGED <<program, android, lifetime_vars, exception, exit_code,
                   selection_vars, device, surface_vars, loop_vars, query_vars,
                   surface_capabilities, surface_formats>>

NextSwapchain == FillCreateInfo

SpecSwapchain == InitSwapchain /\ [][NextSwapchain]_vars

\* =================================================================== claims
\* The positions of main.cpp's main() from the first poll of the event
\* loop to its last.
InEventLoop ==
    program = "main" /\
    pc \in {"poll", "create_surface", "create_swapchain", "swapchain_created"}

\* main.cpp is between two events: every handler so far has run to its end.
BetweenEvents == program = "main" /\ pc = "poll"

\* C1 (as claimed): between events at most one Surface exists, and one
\* exists exactly when the loop has handled no EnterBackground since
\* start-up or since the last EnterForeground.
C1_SurfaceFromStartup ==
    BetweenEvents =>
        /\ Cardinality(live_surfaces) <= 1
        /\ has_value(surface) <=> last_lifecycle \in {"none", "fg"}

\* C1 (amended): in main.cpp at most one Surface exists at any time; between
\* events the live VkSurfaceKHR handles are exactly the one of the Surface
\* the optional holds, and the optional holds one exactly when the last
\* lifecycle event handled is an EnterForeground or, on a build that is not
\* for Android, when no lifecycle event has been handled yet.
C1_SurfaceIffForeground ==
    program = "main" =>
        /\ Cardinality(live_surfaces) <= 1
        /\ BetweenEvents =>
              /\ live_surfaces = {s.handle : s \in Range(surface)}
              /\ has_value(surface) <=>
                     \/ last_lifecycle = "fg"
                     \/ last_lifecycle = "none" /\ ~android

\* C1 witness: a Surface created by an EnterForeground that followed an
\* earlier Surface.
C1_Witness ==
    /\ BetweenEvents
    /\ last_lifecycle = "fg"
    /\ has_value(surface)
    /\ surface[1].handle > 1

\* C2 (as claimed): between events a Surface that exists owns exactly one
\* live Swapchain.
C2_SurfaceOwnsSwapchain ==
    (BetweenEvents /\ has_value(surface)) =>
        /\ has_value(surface[1].swapchain)
        /\ Cardinality({sc \in live_swapchains :
                            sc.surface = surface[1].handle}) = 1

\* C3: in main.cpp the selection loop runs once, before the event loop; the
\* logical device is created with the selected family, which stays the
\* value of queue_family during the event loop; every Surface and every
\* Swapchain is created with the device's (physical device, family index).
C3_QueueFamilyFixed ==
    program = "main" =>
        /\ select_runs <= 1
        /\ InEventLoop =>
              /\ select_runs = 1
              /\ has_value(device)
              /\ queue_family = device
        /\ \A s \in Range(surface) \cup Range(constructing) :
              has_value(device) /\ s.queue_family = device[1]
        /\ \A sc \in live_swapchains :
              /\ has_value(device)
              /\ sc.physical_device = device[1].physical_device
              /\ sc.queue_family_index = device[1].queue_family_index

\* C3 witness: a Swapchain created on an EnterForeground for a family that
\* is not the first of the first device.
C3_Witness ==
    /\ program = "main"
    /\ pc = "swapchain_created"
    /\ last_lifecycle = "fg"
    /\ \E sc \in live_swapchains :
          sc.physical_device = 2 /\ sc.queue_family_index = 1

\* C4 (as claimed): once a loop has handled a Quit, it ends and main()
\* returns 0, whatever events came before or come after and whether a
\* Surface exists or not.  (The platform posts finitely many events, so the
\* queue can be drained.)
C4_QuitLeadsToExitZero ==
    (should_close /\ pc = "poll") ~> (pc = "exited" /\ exit_code = <<0>>)

\* C4 (amended): once a loop has handled a Quit, it ends and main() returns
\* 0 with every local destroyed, unless the Surface creation for an
\* EnterForeground handled after the Quit fails, which ends the process in
\* std::terminate.
C4_QuitLeadsToExit ==
    (should_close /\ pc = "poll") ~>
        \/ pc = "exited" /\ exit_code = <<0>> /\ alive = {}
        \/ pc = "terminated" /\ after_quit /\ last_lifecycle = "fg"

\* C4 witness: main.cpp returned 0 after a Quit handled while no Surface
\* existed, with an event handled after the Quit.
C4_Witness ==
    /\ program = "main"
    /\ pc = "exited"
    /\ exit_code = <<0>>
    /\ last_lifecycle = "bg"
    /\ after_quit

\* What each object of main.cpp is built from, as (object, the object it
\* must not outlive).
MustNotOutlive ==
    {<<"surface", "device">>, <<"queue", "device">>, <<"device", "instance">>,
     <<"window", "instance">>, <<"surface", "window">>,
     <<"instance", "context">>, <<"context", "vulkan_library">>,
     <<"instance", "vulkan_library">>, <<"instance", "sdl">>,
     <<"vulkan_library", "sdl">>, <<"window", "sdl">>}

Visited == {p \in (1..Len(enumerated)) \X (1..MaxFamilies) :
                p[2] <= Len(enumerated[p[1]])}
Seen(p) == enumerated[p[1]][p[2]]
NotAfter(p, q) == p[1] < q[1] \/ (p[1] = q[1] /\ p[2] <= q[2])

\* A visited family that supports graphics and whose presentation query did
\* not answer "no" (part_000 asks no such question).
IsCandidateFamily(p) ==
    /\ Seen(p).does_support_graphics
    /\ ~(Seen(p).does_support_presentation.kind = "value" /\
         ~Seen(p).does_support_presentation.value)
Candidates == {p \in Visited : IsCandidateFamily(p)}

\* The selection as a visited family.
Selected == <<queue_family[1].physical_device, queue_family[1].queue_family_index + 1>>

\* When the loops have run, the selection is the last candidate visited,
\* and there is none exactly when there is no candidate.
LastCandidateSelected ==
    pc = "selected" =>
        /\ has_value(queue_family) <=> Candidates # {}
        /\ has_value(queue_family) =>
              /\ Selected \in Candidates
              /\ \A p \in Candidates : NotAfter(p, Selected)

C7_QueryErrorIsPermissive ==
    (program = "main" /\ pc = "selected") =>
        /\ exception = ""
        /\ \A p \in Visited :
              LET answer == Seen(p).does_support_presentation
                  chosen_here_or_later ==
                      has_value(queue_family) /\ NotAfter(p, Selected)
              IN /\ answer.kind \in {"value", "unexpected"}
                 /\ answer.kind = "unexpected" =>
                       /\ answer.error \in PresentationSupportQueryError
                       /\ Seen(p).does_support_graphics => chosen_here_or_later
                 /\ (Seen(p).does_support_graphics /\ ~chosen_here_or_later) =>
                       answer = Expected(FALSE)
        /\ has_value(queue_family) =>
              /\ Seen(Selected).does_support_graphics
              /\ Seen(Selected).does_support_presentation # Expected(FALSE)

\* C7 witness: the selected family's query answered Failure, and an earlier
\* family without graphics support was passed over.
C7_Witness ==
    /\ program = "main"
    /\ pc = "selected"
    /\ has_value(queue_family)
    /\ Seen(Selected).does_support_presentation = Unexpected("Failure")
    /\ \E p \in Visited : ~Seen(p).does_support_graphics /\ NotAfter(p, Selected)

\* The subsystems main.cpp:123-126 answers for without asking the driver.
AlwaysPresentable == {"ANDROID", "COCOA", "UIKIT"}

\* The subsystem of the queried window has a case of its own in the build.
HasCase(info) ==
    \/ info.subsystem \in AlwaysPresentable \cup {"UNKNOWN"}
    \/ info.subsystem = "WINDOWS" /\ "WIN32" \in info.vk_platforms
    \/ info.subsystem = "WAYLAND" /\ "WAYLAND" \in info.vk_platforms
    \/ info.subsystem = "X11" /\ "XLIB" \in info.vk_platforms

\* C8 (as claimed): the query returns a tagged result whatever the platform
\* answers: Failure when SDL_GetWindowWMInfo or X11_XGetWindowAttributes
\* fails, true for the always-presentable subsystems, Unknown for the
\* unknown subsystem, Unimplemented for a subsystem without a case.
C8_QueryNeverThrows ==
    pc = "query_returned" =>
        /\ query_result.kind \in {"value", "unexpected"}
        /\ ~wm_info.wm_info_ok => query_result = Unexpected("Failure")
        /\ wm_info.wm_info_ok =>
              /\ wm_info.subsystem \in AlwaysPresentable =>
                    query_result = Expected(TRUE)
              /\ wm_info.subsystem = "UNKNOWN" =>
                    query_result = Unexpected("Unknown")
              /\ ~HasCase(wm_info) => query_result = Unexpected("Unimplemented")
              /\ (wm_info.subsystem = "X11" /\ HasCase(wm_info) /\
                  ~wm_info.attributes_ok) => query_result = Unexpected("Failure")

\* C9: for capabilities with minImageCount <= maxImageCount the create info
\* asks for minImageCount + 1 images when that is at most maxImageCount and
\* for maxImageCount otherwise (the sum taken in the integers), which lies
\* between the two.
C9_MinImageCountClamped ==
    (pc = "create_info_filled" /\
     surface_capabilities.minImageCount <= surface_capabilities.maxImageCount) =>
        LET lo == surface_capabilities.minImageCount
            hi == surface_capabilities.maxImageCount
            n == swapchain_create_info.minImageCount
        IN /\ n = IF lo + 1 <= hi THEN lo + 1 ELSE hi
           /\ lo <= n
           /\ n <= hi

\* C9 witness: minImageCount = maxImageCount = the largest value of the
\* type, where minImageCount + 1 wraps to 0.
C9_Witness ==
    /\ pc = "create_info_filled"
    /\ surface_capabilities.minImageCount = UIntMax
    /\ surface_capabilities.maxImageCount = UIntMax
    /\ swapchain_create_info.minImageCount = UIntMax

\* The entry {8-bit BGRA sRGB, sRGB non-linear}.
PreferredFormat == [format |-> "eB8G8R8A8Srgb", colorSpace |-> "eSrgbNonlinear"]

\* C10: the create info's image format and colour space are those of the
\* first entry of the list equal to the preferred one, and those of the
\* list's first entry when no entry is equal to it.
C10_FormatSelection ==
    pc = "create_info_filled" =>
        LET places == {k \in 1..Len(surface_formats) :
                           surface_formats[k] = PreferredFormat}
            first == CHOOSE k \in places : \A j \in places : k <= j
            chosen == IF places # {} THEN surface_formats[first]
                      ELSE surface_formats[1]
        IN /\ swapchain_create_info.imageFormat = chosen.format
           /\ swapchain_create_info.imageColorSpace = chosen.colorSpace

\* C10 witness: the preferred entry is not the first of the list, the first
\* has the preferred format with another colour space, and the preferred
\* entry is taken.
C10_Witness ==
    /\ pc = "create_info_filled"
    /\ Len(surface_formats) >= 2
    /\ surface_formats[1].format = "eB8G8R8A8Srgb"
    /\ surface_formats[1] # PreferredFormat
    /\ surface_formats[2] = PreferredFormat
    /\ swapchain_create_info.imageFormat = "eB8G8R8A8Srgb"
    /\ swapchain_create_info.imageColorSpace = "eSrgbNonlinear"

\* The loop of main() has been left: by its return or by an exception.
LoopLeft == pc \in {"throw", "unwind", "terminated", "exited"}

\* C11 (as claimed): once the loop has handled a Quit, no Surface is created
\* or destroyed before the loop exits, whatever events are still pending
\* behind the Quit in the same drain of the queue.
C11_ClosingIsTerminal ==
    [][(should_close /\ InEventLoop) => live_surfaces' = live_surfaces]_vars

\* C11 (amended): closing is terminal from the end of the drain.  A handled
\* Quit sets should_close, which is never cleared; with should_close set the
\* loop exits, and main() returns 0, as soon as the queue is found empty;
\* until then a Surface is created or destroyed only by handling an
\* EnterBackground or EnterForeground pending behind the Quit; and once the
\* loop is left no event is handled and Surfaces are only torn down.
C11_ClosingEndsTheDrain ==
    [][/\ (pc = "poll" /\ events # <<>> /\ Head(events) = "SDL_EVENT_QUIT"
            /\ events' = Tail(events)) => should_close'
       /\ should_close => should_close'
       /\ (should_close /\ pc = "poll" /\ events = <<>> /\ events' = <<>>)
              => (pc' = "unwind" /\ exit_code' = <<0>>)
       /\ (should_close /\ InEventLoop /\ live_surfaces' # live_surfaces)
              => \/ /\ pc = "poll"
                     /\ events # <<>>
                     /\ Head(events) = "SDL_EVENT_WILL_ENTER_BACKGROUND"
                     /\ events' = Tail(events)
                 \/ /\ pc = "create_surface"
                     /\ last_lifecycle = "fg"
                     /\ after_quit
       /\ (should_close /\ LoopLeft)
              => /\ events' = events
                 /\ live_surfaces' \subseteq live_surfaces
                 /\ surface' \in {surface, <<>>}]_vars

\* C11 witness: main.cpp has left its loop to return 0 and holds a Surface
\* that an EnterForeground behind the Quit created; the teardown comes next.
C11_Witness ==
    /\ program = "main"
    /\ pc = "unwind"
    /\ exit_code = <<0>>
    /\ after_quit
    /\ last_lifecycle = "fg"
    /\ has_value(surface)

====
